---- MODULE Spec2Model ----
(***************************************************************************)
(* Model of the cached acquisition of the SCH dataset                      *)
(* (src/src/schtools/_sch_database.py): fetch_sch_database and             *)
(* _download_sch_database, run by concurrent callers against one cache     *)
(* directory.  The filesystem (the cache directory, the canonical file,    *)
(* the staging files) and the clock are the shared state; every caller has *)
(* its own position, arguments and local variables.                        *)
(***************************************************************************)
EXTENDS Integers, FiniteSets, Sequences, TLC

\* ---------------------------------------------------------------- bounds
Procs == {1, 2}            \* concurrent callers of fetch_sch_database
First == {1}               \* the caller of the sequential specification
MaxRetries == 2            \* largest n_retries a caller passes
MaxGrace == 1              \* largest download_grace_period (days) a caller passes
TicksPerDay == 2           \* clock ticks in one day (timedelta.days floors)
MaxNow == 4                \* the clock stops advancing here
MaxAttempts == MaxRetries + 2  \* urlretrieve calls explored in one download
MaxCalls == 2              \* calls of fetch_sch_database explored in one run
StagingNames == {1, 2}     \* names NamedTemporaryFile can draw

\* ------------------------------------------------------------ file values
\* A file is a record: who wrote it (0 = it was there before any call),
\* how much of the payload it holds, and its modification time, which is
\* recorded when the last write of the payload ends (a file still being
\* written has the time 0: nothing reads it before it is complete).
NoFile == [content |-> "none", by |-> 0, mtime |-> 0]
OldFile == [content |-> "complete", by |-> 0, mtime |-> 0]

VARIABLES
    now,          \* the clock, in ticks
    dirExists,    \* the cache directory (data_home) exists
    canonical,    \* the file at data_home / "produtos_certificados.zip"
    staging,      \* the files "produtos_certificados.zip.part_<name>"
    pc,           \* position of each caller
    args,         \* keyword arguments of each caller's current call
    n_retries,    \* the local n_retries of _download_sch_database
    temp_file,    \* the name of the staging file of each caller (0 = none)
    err,          \* the exception a caller is propagating / ended with
    hist,         \* per call: what the call has done so far
    calls,        \* calls started so far
    resolver      \* the resolution of data_home: the environment, the
                  \* directories that exist, the last call and its result

vars == <<now, dirExists, canonical, staging, pc, args, n_retries, temp_file,
          err, hist, calls, resolver>>

\* ---------------------------------------------------------- pure helpers
\* Mutant: the age rounded up to whole days.
AgeDaysCeil(t, mtime) == (t - mtime + TicksPerDay - 1) \div TicksPerDay

\* timedelta.days of (datetime.today() - mtime): whole days, rounded down.
AgeDays(t, mtime) == (t - mtime) \div TicksPerDay

\* Mutant: the comparison of line 195 written with >=.
OlderThanGraceInclusive(t, mtime, grace) == AgeDays(t, mtime) >= grace

\* Mutant: the comparison of line 195 one day late.
OlderThanGraceOffByOne(t, mtime, grace) == AgeDays(t, mtime) > grace + 1

\* line 195: sch_file_age.days > download_grace_period
OlderThanGrace(t, mtime, grace) == AgeDays(t, mtime) > grace

\* Mutant: the elif of line 201 left out, force_download has no effect.
BranchNoForce(file, t, a) ==
    IF file # NoFile
    THEN IF OlderThanGrace(t, file.mtime, a.download_grace_period)
         THEN "download"
         ELSE "read"
    ELSE IF a.download_if_missing THEN "download" ELSE "raise"

\* Mutant: force_download tested first, before the existence of the file.
BranchForceFirst(file, t, a) ==
    IF a.force_download
    THEN "download"
    ELSE IF file # NoFile
         THEN IF OlderThanGrace(t, file.mtime, a.download_grace_period)
              THEN "download"
              ELSE "read"
         ELSE IF a.download_if_missing THEN "download" ELSE "raise"

\* lines 191-217: which branch of fetch_sch_database a call takes.
Branch(file, t, a) ==
    IF file # NoFile
    THEN IF OlderThanGrace(t, file.mtime, a.download_grace_period)
         THEN "download"
         ELSE IF a.force_download THEN "download" ELSE "read"
    ELSE IF a.download_if_missing THEN "download" ELSE "raise"

\* Mutant: the test of line 97 gives up one retry early.
NoRetriesLeftEarly(n) == n <= 1

\* line 97: n_retries == 0
NoRetriesLeft(n) == n = 0

\* Mutant: the published file given the modification time of the file it
\* replaces.
MovedOldTime(src, dst) == [src EXCEPT !.mtime = dst.mtime]

\* Mutant: a rename that does not replace an existing target.
MovedKeepExisting(src, dst) == IF dst # NoFile THEN dst ELSE src

\* line 113: shutil.move(temp_file_path, sch_file_path) within one directory
\* is os.rename: the target becomes the source file, whole, keeping its
\* modification time.
Moved(src, dst) == src

\* line 114: sch_file_path.exists()
Exists(file) == file # NoFile

ArgSet == [download_if_missing : BOOLEAN,
           download_grace_period : 0..MaxGrace,
           force_download : BOOLEAN,
           n_retries : -1..MaxRetries]

\* The arguments of a caller that is not in a call.
NoArgs == [download_if_missing |-> TRUE, download_grace_period |-> 0,
           force_download |-> FALSE, n_retries |-> 0]

\* Arguments of the calls explored concurrently.
ConcArgSet == {a \in ArgSet : /\ a.download_if_missing
                              /\ a.download_grace_period = 0
                              /\ a.n_retries \in 0..1}

\* What a call has done so far (observation only, the code has no such
\* record): the state it found at the test of line 191 (the canonical file,
\* the clock, the directory), the branch it took, the calls it made to
\* _download_sch_database, NamedTemporaryFile, urlretrieve, shutil.move and
\* os.unlink, the urlretrieve calls that raised URLError or TimeoutError,
\* where the exception it ended with was raised, and the retry warnings it
\* emitted and the sleeps it finished.
NoHist == [branch |-> "none", before |-> NoFile, at |-> 0,
           dirBefore |-> FALSE, downloads |-> 0, created |-> 0,
           attempts |-> 0, fails |-> 0, renames |-> 0, unlinks |-> 0,
           raisedAt |-> "none", warns |-> 0, sleeps |-> 0]

Ended == {"returned", "failed", "killed"}

\* ------------------------------------------------- resolution of data_home
\* A path is the sequence of its components; an optional value (an argument
\* that may be None, an environment variable that may be unset) is a record.
Unset == [set |-> FALSE, path |-> <<>>]
Given(path) == [set |-> TRUE, path |-> path]

Home == <<"home", "user">>      \* what "~" stands for

\* os.path.expanduser: a leading "~" component becomes the home directory.
expanduser(path) ==
    IF Len(path) > 0 /\ path[1] = "~"
    THEN Home \o SubSeq(path, 2, Len(path))
    ELSE path

\* os.path.join of a path and further components.
join(a, b) == a \o b

\* os.environ.get(name, default) for a variable that may be unset.
EnvGet(var, default) == IF var.set THEN var.path ELSE default

\* Mutant: the environment variable is read first and wins over the
\* argument.
DataHomeEnvFirst(data_home, SCH_DATAHOME, default_data_home) ==
    IF SCH_DATAHOME.set
    THEN SCH_DATAHOME.path
    ELSE IF data_home.set THEN data_home.path ELSE default_data_home

\* lines 47-48 (config.py 31-32): the argument when it is not None, else
\* SCH_DATAHOME when it is set, else the default.
DataHome(data_home, SCH_DATAHOME, default_data_home) ==
    IF ~data_home.set
    THEN EnvGet(SCH_DATAHOME, default_data_home)
    ELSE data_home.path

\* _sch_database.py lines 46-51: _get_data_home returns the expanded path;
\* it creates nothing.
_get_data_home(data_home, env) ==
    LET default_data_home ==
            join(EnvGet(env.LOCALAPPDATA, <<"~">>), <<"sch_database">>)
    IN  expanduser(DataHome(data_home, env.SCH_DATAHOME, default_data_home))

\* _sch_database.py lines 184-187: fetch_sch_database resolves None through
\* _get_data_home and takes any other argument as it is.
fetch_data_home(data_home, env) ==
    IF ~data_home.set
    THEN _get_data_home(data_home, env)
    ELSE data_home.path

\* config.py lines 30-33: the data home of the configuration.
config_data_home(data_home, env) ==
    LET default_data_home ==
            join(EnvGet(env.LOCALAPPDATA, <<"~">>), <<"sch_tools", "datasets">>)
    IN  expanduser(DataHome(data_home, env.SCH_DATAHOME, default_data_home))

\* os.makedirs(path, exist_ok=True): the directory and its missing parents.
makedirs(dirs, path) == dirs \cup {SubSeq(path, 1, n) : n \in 1..Len(path)}

\* The values explored: explicit arguments, values of SCH_DATAHOME and of
\* LOCALAPPDATA; the last component tells where a path came from.
ExplicitPaths == {<<"~", "explicit">>, <<"srv", "explicit">>}
EnvPaths == {<<"~", "env">>, <<"mnt", "env">>}
AppDataPaths == {<<"C:", "AppData">>}

Optional(paths) == {Unset} \cup {Given(x) : x \in paths}

IdleResolver == [SCH_DATAHOME |-> Unset, LOCALAPPDATA |-> Unset, dirs |-> {},
                 op |-> "none", data_home |-> Unset, result |-> <<>>,
                 calls |-> 0]

\* ------------------------------------------------------------------ Init
Init ==
    /\ now = 0
    /\ \E d \in BOOLEAN, f \in {NoFile, OldFile} :
          /\ (f # NoFile => d)
          /\ dirExists = d
          /\ canonical = f
    /\ staging = [s \in StagingNames |-> NoFile]
    /\ pc = [p \in Procs |-> "idle"]
    /\ args = [p \in Procs |-> NoArgs]
    /\ n_retries = [p \in Procs |-> 0]
    /\ temp_file = [p \in Procs |-> 0]
    /\ err = [p \in Procs |-> "none"]
    /\ hist = [p \in Procs |-> NoHist]
    /\ calls = 0
    /\ resolver = IdleResolver

\* --------------------------------------------------------------- actions
\* Time passes: between calls, and where a call blocks (urlretrieve at line
\* 94, time.sleep at line 104).
Tick ==
    /\ now < MaxNow
    /\ \A p \in Procs :
          pc[p] \in {"idle", "killed", "transferring", "sleep"}
    /\ now' = now + 1
    /\ UNCHANGED <<dirExists, canonical, staging, pc, args, n_retries,
                   temp_file, err, hist, calls,
                   resolver>>

\* A caller calls fetch_sch_database(**a), a drawn from A; lines 184-189
\* resolve the path.
CallWith(p, A) ==
    /\ pc[p] = "idle"
    /\ calls < MaxCalls
    /\ \E a \in A :
          /\ args' = [args EXCEPT ![p] = a]
          /\ n_retries' = [n_retries EXCEPT ![p] = a.n_retries]
    /\ pc' = [pc EXCEPT ![p] = "check"]
    /\ calls' = calls + 1
    /\ UNCHANGED <<now, dirExists, canonical, staging, temp_file, err, hist,
                   resolver>>

\* lines 191-217: the existence and age test and the branch it selects.
Check(p) ==
    /\ pc[p] = "check"
    /\ LET b == Branch(canonical, now, args[p]) IN
          /\ hist' = [hist EXCEPT ![p].branch = b,
                                  ![p].before = canonical,
                                  ![p].at = now,
                                  ![p].dirBefore = dirExists,
                                  ![p].raisedAt =
                                      IF b = "raise" THEN "check" ELSE "none"]
          /\ pc' = [pc EXCEPT ![p] =
                       CASE b = "download" -> "create"
                         [] b = "read" -> "read"
                         [] OTHER -> "failed"]
          /\ err' = [err EXCEPT ![p] =
                       IF b = "raise" THEN "NotFoundLocally" ELSE "none"]
    /\ UNCHANGED <<now, dirExists, canonical, staging, args, n_retries,
                   temp_file, calls,
                   resolver>>

\* Mutant: the staging file opened under one fixed name (sch.csv.part),
\* truncating whatever is there.
CreateStagingFixedName(p) ==
    /\ pc[p] = "create"
    /\ staging' = [staging EXCEPT ![1] =
                      [content |-> "empty", by |-> p, mtime |-> 0]]
    /\ temp_file' = [temp_file EXCEPT ![p] = 1]
    /\ dirExists' = TRUE
    /\ hist' = [hist EXCEPT ![p].downloads = @ + 1, ![p].created = @ + 1]
    /\ pc' = [pc EXCEPT ![p] = "attempt"]
    /\ UNCHANGED <<now, canonical, args, n_retries, err, calls,
                   resolver>>

\* lines 81-87: makedirs(exist_ok=True), then NamedTemporaryFile creates an
\* empty file under a name no existing file has, and closes it.
CreateStaging(p) ==
    /\ pc[p] = "create"
    /\ \E s \in StagingNames :
          /\ staging[s] = NoFile
          /\ staging' = [staging EXCEPT ![s] =
                            [content |-> "empty", by |-> p, mtime |-> 0]]
          /\ temp_file' = [temp_file EXCEPT ![p] = s]
    /\ dirExists' = TRUE
    /\ hist' = [hist EXCEPT ![p].downloads = @ + 1, ![p].created = @ + 1]
    /\ pc' = [pc EXCEPT ![p] = "attempt"]
    /\ UNCHANGED <<now, canonical, args, n_retries, err, calls,
                   resolver>>

\* line 94, urlretrieve fails before it writes: URLError or TimeoutError
\* while opening the url.
OpenFails(p) ==
    /\ pc[p] = "attempt"
    /\ hist[p].attempts < MaxAttempts
    /\ hist' = [hist EXCEPT ![p].attempts = @ + 1, ![p].fails = @ + 1]
    /\ pc' = [pc EXCEPT ![p] = "except"]
    /\ UNCHANGED <<now, dirExists, canonical, staging, args, n_retries,
                   temp_file, err, calls,
                   resolver>>

\* Mutant: urlretrieve is given the canonical path, not the staging file.
TransferInPlace(p) ==
    /\ pc[p] = "attempt"
    /\ hist[p].attempts < MaxAttempts
    /\ canonical' = [content |-> "partial", by |-> p, mtime |-> 0]
    /\ hist' = [hist EXCEPT ![p].attempts = @ + 1]
    /\ pc' = [pc EXCEPT ![p] = "transferring"]
    /\ UNCHANGED <<now, dirExists, staging, args, n_retries, temp_file,
                   err, calls,
                   resolver>>

\* line 94, urlretrieve opens the url, truncates the staging file and
\* writes the first blocks of the payload.
Transfer(p) ==
    /\ pc[p] = "attempt"
    /\ hist[p].attempts < MaxAttempts
    /\ staging' = [staging EXCEPT ![temp_file[p]] =
                      [content |-> "partial", by |-> p, mtime |-> 0]]
    /\ hist' = [hist EXCEPT ![p].attempts = @ + 1]
    /\ pc' = [pc EXCEPT ![p] = "transferring"]
    /\ UNCHANGED <<now, dirExists, canonical, args, n_retries, temp_file,
                   err, calls,
                   resolver>>

\* line 94-95, urlretrieve returns: the payload is complete; break.
TransferDone(p) ==
    /\ pc[p] = "transferring"
    /\ staging' = [staging EXCEPT ![temp_file[p]] =
                      [content |-> "complete", by |-> p, mtime |-> now]]
    /\ pc' = [pc EXCEPT ![p] = "move"]
    /\ UNCHANGED <<now, dirExists, canonical, args, n_retries, temp_file,
                   err, hist, calls,
                   resolver>>

\* line 94, urlretrieve fails in the middle of the payload with a URLError
\* (ContentTooShortError) or a TimeoutError.
TransferFails(p) ==
    /\ pc[p] = "transferring"
    /\ hist' = [hist EXCEPT ![p].fails = @ + 1]
    /\ pc' = [pc EXCEPT ![p] = "except"]
    /\ UNCHANGED <<now, dirExists, canonical, staging, args, n_retries,
                   temp_file, err, calls,
                   resolver>>

\* Mutant: the inner handler of line 96 catches every Exception.
TransferErrorRetried(p) ==
    /\ pc[p] = "transferring"
    /\ err' = [err EXCEPT ![p] = "OtherError"]
    /\ hist' = [hist EXCEPT ![p].fails = @ + 1]
    /\ pc' = [pc EXCEPT ![p] = "except"]
    /\ UNCHANGED <<now, dirExists, canonical, staging, args, n_retries,
                   temp_file, calls, resolver>>

\* line 94, urlretrieve raises an exception that is neither URLError nor
\* TimeoutError (a write error on the staging file): the inner handler
\* does not match, the outer one (line 105) does.
TransferError(p) ==
    /\ pc[p] = "transferring"
    /\ err' = [err EXCEPT ![p] = "OtherError"]
    /\ hist' = [hist EXCEPT ![p].raisedAt = pc[p]]
    /\ pc' = [pc EXCEPT ![p] = "cleanup"]
    /\ UNCHANGED <<now, dirExists, canonical, staging, args, n_retries,
                   temp_file, calls,
                   resolver>>

\* Mutant: the inner handler leaves the loop (break) where line 99 raises.
ExceptSwallow(p) ==
    /\ pc[p] = "except"
    /\ IF NoRetriesLeft(n_retries[p])
       THEN pc' = [pc EXCEPT ![p] = "move"]
       ELSE pc' = [pc EXCEPT ![p] = "warn"]
    /\ UNCHANGED <<now, dirExists, canonical, staging, args, n_retries,
                   temp_file, err, hist, calls,
                   resolver>>

\* lines 96-99: the inner handler; re-raise when no retries are left.
Except(p) ==
    /\ pc[p] = "except"
    /\ IF NoRetriesLeft(n_retries[p])
       THEN /\ err' = [err EXCEPT ![p] = "NetworkError"]
            /\ hist' = [hist EXCEPT ![p].raisedAt = "attempt"]
            /\ pc' = [pc EXCEPT ![p] = "cleanup"]
       ELSE /\ err' = err
            /\ hist' = hist
            /\ pc' = [pc EXCEPT ![p] = "warn"]
    /\ UNCHANGED <<now, dirExists, canonical, staging, args, n_retries,
                   temp_file, calls,
                   resolver>>

\* lines 100-102: warnings.warn emits the retry warning.
Warn(p) ==
    /\ pc[p] = "warn"
    /\ hist' = [hist EXCEPT ![p].warns = @ + 1]
    /\ pc' = [pc EXCEPT ![p] = "decrement"]
    /\ UNCHANGED <<now, dirExists, canonical, staging, args, n_retries,
                   temp_file, err, calls, resolver>>

\* Mutant: line 103 left out, the budget is never reduced.
DecrementForgotten(p) ==
    /\ pc[p] = "decrement"
    /\ pc' = [pc EXCEPT ![p] = "sleep"]
    /\ UNCHANGED <<now, dirExists, canonical, staging, args, n_retries,
                   temp_file, err, hist, calls, resolver>>

\* line 103: n_retries -= 1.
Decrement(p) ==
    /\ pc[p] = "decrement"
    /\ n_retries' = [n_retries EXCEPT ![p] = @ - 1]
    /\ pc' = [pc EXCEPT ![p] = "sleep"]
    /\ UNCHANGED <<now, dirExists, canonical, staging, args, temp_file, err,
                   hist, calls, resolver>>

\* line 104: time.sleep(delay), then the loop starts the next attempt.
Sleep(p) ==
    /\ pc[p] = "sleep"
    /\ hist' = [hist EXCEPT ![p].sleeps = @ + 1]
    /\ pc' = [pc EXCEPT ![p] = "attempt"]
    /\ UNCHANGED <<now, dirExists, canonical, staging, args, n_retries,
                   temp_file, err, calls, resolver>>

\* Mutant: line 105 catches Exception only, a KeyboardInterrupt leaves
\* _download_sch_database without passing through the handler.
InterruptUncaught(p) ==
    /\ pc[p] \in {"attempt", "transferring", "except", "warn", "decrement",
                  "sleep"}
    /\ err' = [err EXCEPT ![p] = "KeyboardInterrupt"]
    /\ hist' = [hist EXCEPT ![p].raisedAt = pc[p]]
    /\ pc' = [pc EXCEPT ![p] = "failed"]
    /\ UNCHANGED <<now, dirExists, canonical, staging, args, n_retries,
                   temp_file, calls,
                   resolver>>

\* A KeyboardInterrupt arrives inside the try block of lines 89-104: in
\* urlretrieve, in the handler, in warnings.warn, at the decrement or in
\* time.sleep.
Interrupt(p) ==
    /\ pc[p] \in {"attempt", "transferring", "except", "warn", "decrement",
                  "sleep"}
    /\ err' = [err EXCEPT ![p] = "KeyboardInterrupt"]
    /\ hist' = [hist EXCEPT ![p].raisedAt = pc[p]]
    /\ pc' = [pc EXCEPT ![p] = "cleanup"]
    /\ UNCHANGED <<now, dirExists, canonical, staging, args, n_retries,
                   temp_file, calls,
                   resolver>>

\* Mutant: the handler removes every sch.csv.part_* file of the directory.
CleanupAll(p) ==
    /\ pc[p] = "cleanup"
    /\ staging' = [s \in StagingNames |-> NoFile]
    /\ hist' = [hist EXCEPT ![p].unlinks = @ + 1]
    /\ pc' = [pc EXCEPT ![p] = "failed"]
    /\ UNCHANGED <<now, dirExists, canonical, args, n_retries, temp_file,
                   err, calls,
                   resolver>>

\* lines 105-107: os.unlink(temp_file.name); raise.
Cleanup(p) ==
    /\ pc[p] = "cleanup"
    /\ staging' = [staging EXCEPT ![temp_file[p]] = NoFile]
    /\ hist' = [hist EXCEPT ![p].unlinks = @ + 1]
    /\ pc' = [pc EXCEPT ![p] = "failed"]
    /\ UNCHANGED <<now, dirExists, canonical, args, n_retries, temp_file,
                   err, calls,
                   resolver>>

\* line 113: shutil.move renames the staging file to the canonical name.
Move(p) ==
    /\ pc[p] = "move"
    /\ canonical' = Moved(staging[temp_file[p]], canonical)
    /\ staging' = [staging EXCEPT ![temp_file[p]] = NoFile]
    /\ hist' = [hist EXCEPT ![p].renames = @ + 1]
    /\ pc' = [pc EXCEPT ![p] = "verify"]
    /\ UNCHANGED <<now, dirExists, args, n_retries, temp_file, err, calls,
                   resolver>>

\* Mutant: lines 114-115 left out.
VerifyNoCheck(p) ==
    /\ pc[p] = "verify"
    /\ pc' = [pc EXCEPT ![p] = "read"]
    /\ UNCHANGED <<now, dirExists, canonical, staging, args, n_retries,
                   temp_file, err, hist, calls,
                   resolver>>

\* lines 114-115: raise OSError when the canonical file does not exist.
Verify(p) ==
    /\ pc[p] = "verify"
    /\ IF Exists(canonical)
       THEN /\ pc' = [pc EXCEPT ![p] = "read"]
            /\ err' = err
       ELSE /\ pc' = [pc EXCEPT ![p] = "failed"]
            /\ err' = [err EXCEPT ![p] = "StorageError"]
    /\ hist' = [hist EXCEPT ![p].raisedAt =
                    IF Exists(canonical) THEN @ ELSE "verify"]
    /\ UNCHANGED <<now, dirExists, canonical, staging, args, n_retries,
                   temp_file, calls,
                   resolver>>

\* lines 219-244: pd.read_csv(sch_file_path) and the return of the frame;
\* read_csv raises FileNotFoundError when the file is not there.
Read(p) ==
    /\ pc[p] = "read"
    /\ IF Exists(canonical)
       THEN /\ pc' = [pc EXCEPT ![p] = "returned"]
            /\ err' = err
       ELSE /\ pc' = [pc EXCEPT ![p] = "failed"]
            /\ err' = [err EXCEPT ![p] = "FileNotFoundError"]
    /\ hist' = [hist EXCEPT ![p].raisedAt =
                    IF Exists(canonical) THEN @ ELSE "read"]
    /\ UNCHANGED <<now, dirExists, canonical, staging, args, n_retries,
                   temp_file, calls,
                   resolver>>

\* The call is over (the frame was returned or the exception has left
\* fetch_sch_database): its arguments and locals are gone.
Return(p) ==
    /\ pc[p] \in {"returned", "failed"}
    /\ pc' = [pc EXCEPT ![p] = "idle"]
    /\ args' = [args EXCEPT ![p] = NoArgs]
    /\ n_retries' = [n_retries EXCEPT ![p] = 0]
    /\ temp_file' = [temp_file EXCEPT ![p] = 0]
    /\ err' = [err EXCEPT ![p] = "none"]
    /\ hist' = [hist EXCEPT ![p] = NoHist]
    /\ UNCHANGED <<now, dirExists, canonical, staging, calls,
                   resolver>>

\* The caller's process is killed (SIGKILL) during the download: no handler
\* runs, the files stay as they are.
Kill(p) ==
    /\ pc[p] \in {"attempt", "transferring", "except", "warn", "decrement",
                  "sleep", "cleanup", "move"}
    /\ pc' = [pc EXCEPT ![p] = "killed"]
    /\ UNCHANGED <<now, dirExists, canonical, staging, args, n_retries,
                   temp_file, err, hist, calls,
                   resolver>>

\* A call with any arguments the entry point takes.
Call(p) == CallWith(p, ArgSet)

\* A call by one of several concurrent callers.
ConcCall(p) == CallWith(p, ConcArgSet)

\* One step of a call in progress.
Body(p) ==
    \/ Check(p)
    \/ CreateStaging(p)
    \/ OpenFails(p)
    \/ Transfer(p)
    \/ TransferDone(p)
    \/ TransferFails(p)
    \/ TransferError(p)
    \/ Except(p)
    \/ Warn(p)
    \/ Decrement(p)
    \/ Sleep(p)
    \/ Interrupt(p)
    \/ Cleanup(p)
    \/ Move(p)
    \/ Verify(p)
    \/ Read(p)
    \/ Return(p)
    \/ Kill(p)

\* One caller, any arguments, several calls one after the other.
Next ==
    \/ Tick
    \/ \E p \in First : Call(p) \/ Body(p)

Spec == Init /\ [][Next]_vars

\* The file is removed from outside (the cache is cleared by the user or by
\* a cleaner): what the test of line 114 guards against.
ExternalRemove ==
    /\ Exists(canonical)
    /\ canonical' = NoFile
    /\ UNCHANGED <<now, dirExists, staging, pc, args, n_retries, temp_file,
                   err, hist, calls,
                   resolver>>

\* The sequential caller on a filesystem that others modify too.
EnvNext ==
    \/ Next
    \/ ExternalRemove

EnvSpec == Init /\ [][EnvNext]_vars

\* line 113, shutil.move raises (the destination cannot be replaced, or the
\* copy to another filesystem fails): the statement stands after the try
\* block of lines 89-107, so the exception leaves the function directly.
MoveFails(p) ==
    /\ pc[p] = "move"
    /\ err' = [err EXCEPT ![p] = "StorageError"]
    /\ hist' = [hist EXCEPT ![p].raisedAt = "move"]
    /\ pc' = [pc EXCEPT ![p] = "failed"]
    /\ UNCHANGED <<now, dirExists, canonical, staging, args, n_retries,
                   temp_file, calls, resolver>>

\* The sequential caller on a filesystem where the rename can fail.
FaultNext ==
    \/ Next
    \/ \E p \in First : MoveFails(p)

FaultSpec == Init /\ [][FaultNext]_vars

\* Concurrent callers against the same cache directory, within one tick of
\* the clock.
ConcNext ==
    \/ \E p \in Procs : ConcCall(p) \/ Body(p)

ConcSpec == Init /\ [][ConcNext]_vars

\* The environment of a resolution: the two variables, and whether the
\* directories the resolution can name are there already.
ResolveInit ==
    /\ now = 0
    /\ dirExists = FALSE
    /\ canonical = NoFile
    /\ staging = [s \in StagingNames |-> NoFile]
    /\ pc = [p \in Procs |-> "idle"]
    /\ args = [p \in Procs |-> NoArgs]
    /\ n_retries = [p \in Procs |-> 0]
    /\ temp_file = [p \in Procs |-> 0]
    /\ err = [p \in Procs |-> "none"]
    /\ hist = [p \in Procs |-> NoHist]
    /\ calls = 0
    /\ \E e \in Optional(EnvPaths), l \in Optional(AppDataPaths),
          d \in {{}, {Home}} :
          resolver = [IdleResolver EXCEPT !.SCH_DATAHOME = e,
                                          !.LOCALAPPDATA = l,
                                          !.dirs = d]

\* fetch_sch_database(data_home=a) up to line 189.
FetchResolve ==
    /\ resolver.calls < MaxCalls
    /\ \E a \in Optional(ExplicitPaths) :
          resolver' = [resolver EXCEPT
                          !.op = "fetch",
                          !.data_home = a,
                          !.result = fetch_data_home(a, resolver),
                          !.calls = @ + 1]
    /\ UNCHANGED <<now, dirExists, canonical, staging, pc, args, n_retries,
                   temp_file, err, hist, calls>>

\* _sch_database.py: _get_data_home(a).
GetDataHome ==
    /\ resolver.calls < MaxCalls
    /\ \E a \in Optional(ExplicitPaths) :
          resolver' = [resolver EXCEPT
                          !.op = "sch",
                          !.data_home = a,
                          !.result = _get_data_home(a, resolver),
                          !.calls = @ + 1]
    /\ UNCHANGED <<now, dirExists, canonical, staging, pc, args, n_retries,
                   temp_file, err, hist, calls>>

\* config.py lines 30-50: _get_data_home(a) makes the three directories
\* below the data home and returns the data home.
ConfigGetDataHome ==
    /\ resolver.calls < MaxCalls
    /\ \E a \in Optional(ExplicitPaths) :
          LET data_home == config_data_home(a, resolver) IN
          resolver' = [resolver EXCEPT
                          !.op = "config",
                          !.data_home = a,
                          !.result = data_home,
                          !.dirs = makedirs(makedirs(makedirs(@,
                                       join(data_home, <<"sch">>)),
                                       join(data_home, <<"search_results">>)),
                                       join(data_home, <<"annotation">>)),
                          !.calls = @ + 1]
    /\ UNCHANGED <<now, dirExists, canonical, staging, pc, args, n_retries,
                   temp_file, err, hist, calls>>

ResolveNext ==
    \/ FetchResolve
    \/ GetDataHome
    \/ ConfigGetDataHome

ResolveSpec == ResolveInit /\ [][ResolveNext]_vars

\* ------------------------------------------------------------ the claims
\* The file a call found at line 191 was there and its age in whole days
\* was at most the grace period (stated on the raw clock, not by AgeDays).
FoundFresh(p) ==
    /\ hist[p].branch # "none"
    /\ Exists(hist[p].before)
    /\ hist[p].at - hist[p].before.mtime
          < (args[p].download_grace_period + 1) * TicksPerDay

\* The file a call found at line 191 was there and its age in whole days
\* was more than the grace period.
FoundStale(p) ==
    /\ hist[p].branch # "none"
    /\ Exists(hist[p].before)
    /\ hist[p].at - hist[p].before.mtime
          >= (args[p].download_grace_period + 1) * TicksPerDay

NoStagingFiles == \A s \in StagingNames : staging[s] = NoFile

\* C1: a call that finds the canonical file with an age in days <= the
\* grace period, and is not forced, makes no network attempt, creates no
\* staging file and leaves the canonical file as it found it.
C1_FreshNoNetwork ==
    \A p \in Procs :
        (FoundFresh(p) /\ ~args[p].force_download) =>
            /\ hist[p].branch = "read"
            /\ hist[p].downloads = 0
            /\ hist[p].attempts = 0
            /\ hist[p].created = 0
            /\ hist[p].renames = 0
            /\ temp_file[p] = 0
            /\ NoStagingFiles
            /\ canonical = hist[p].before

\* A call returned a file aged exactly the grace period of one day.
C1_Witness ==
    \E p \in Procs :
        /\ pc[p] = "returned"
        /\ FoundFresh(p)
        /\ ~args[p].force_download
        /\ args[p].download_grace_period = 1
        /\ hist[p].at - hist[p].before.mtime = TicksPerDay

C3_ExhaustedLeavesCacheIntact ==
    \A p \in Procs :
        (/\ args[p].n_retries >= 0
         /\ hist[p].fails = args[p].n_retries + 1) =>
            /\ pc[p] \in {"except", "cleanup", "failed", "killed"}
            /\ hist[p].renames = 0
            /\ canonical = hist[p].before
            /\ (pc[p] = "failed" =>
                   /\ err[p] \in {"NetworkError", "KeyboardInterrupt"}
                   /\ NoStagingFiles)

\* A call with n_retries = 2 failed after three transient failures and the
\* old file is still there.
C3_Witness ==
    \E p \in Procs :
        /\ pc[p] = "failed"
        /\ err[p] = "NetworkError"
        /\ args[p].n_retries = 2
        /\ hist[p].fails = 3
        /\ Exists(hist[p].before)
        /\ canonical = hist[p].before

\* C4: when a download has failed (retries exhausted, an error that is not
\* a network error, or a KeyboardInterrupt in the attempt, the warning or
\* the sleep), the staging file of the call has been unlinked by the time
\* the call has failed.
C4_CleanupBeforePropagation ==
    \A p \in Procs :
        (/\ pc[p] = "failed"
         /\ err[p] \in {"NetworkError", "OtherError", "KeyboardInterrupt"}) =>
            /\ hist[p].created = 1
            /\ hist[p].unlinks = 1
            /\ staging[temp_file[p]] = NoFile
            /\ \A s \in StagingNames : staging[s].by # p

\* A call was interrupted during the sleep between two attempts, after a
\* partial write, and has failed.
C4_Witness ==
    \E p \in Procs :
        /\ pc[p] = "failed"
        /\ err[p] = "KeyboardInterrupt"
        /\ hist[p].raisedAt = "sleep"
        /\ hist[p].fails = 1
        /\ hist[p].created = 1

\* C5: a download whose first k <= max_retries attempts fail with a
\* transient error is not given up (it fails with the network error only
\* after max_retries + 1 failures); when the next attempt succeeds the
\* staging file is complete, the move publishes it as the canonical file
\* and no staging file remains.
C5_RetryThenSuccess ==
    \A p \in Procs :
        /\ (pc[p] \in {"cleanup", "failed"} /\ err[p] = "NetworkError") =>
               hist[p].fails = args[p].n_retries + 1
        /\ (pc[p] = "move") =>
               /\ staging[temp_file[p]].content = "complete"
               /\ staging[temp_file[p]].by = p
               /\ (args[p].n_retries >= 0 =>
                      hist[p].fails <= args[p].n_retries)
        /\ (pc[p] \in {"verify", "read", "returned"}
            /\ hist[p].downloads = 1) =>
               /\ hist[p].renames = 1
               /\ canonical.content = "complete"
               /\ canonical.by = p
               /\ canonical.mtime >= hist[p].at
               /\ NoStagingFiles

\* A call with n_retries = 2 returned after one transient failure (k = 1).
C5_Witness ==
    \E p \in Procs :
        /\ pc[p] = "returned"
        /\ args[p].n_retries = 2
        /\ hist[p].fails = 1
        /\ hist[p].attempts = 2
        /\ canonical.by = p

\* C6: a forced call that finds a canonical file takes the download branch
\* whatever the age of the file, enters _download_sch_database once and
\* never twice, and every forced call that returns has made exactly one
\* download and one move.
C6_ForcedExactlyOneCycle ==
    \A p \in Procs :
        /\ (/\ hist[p].branch # "none"
            /\ args[p].force_download
            /\ Exists(hist[p].before)) =>
               /\ hist[p].branch = "download"
               /\ hist[p].downloads <= 1
               /\ hist[p].renames <= 1
               /\ (pc[p] # "create" => hist[p].downloads = 1)
        /\ (pc[p] = "returned" /\ args[p].force_download) =>
               /\ hist[p].downloads = 1
               /\ hist[p].created = 1
               /\ hist[p].renames = 1
               /\ hist[p].attempts >= 1

\* A forced call returned after it found a file within the grace period.
C6_Witness ==
    \E p \in Procs :
        /\ pc[p] = "returned"
        /\ args[p].force_download
        /\ FoundFresh(p)
        /\ hist[p].renames = 1

C8_StaleRefreshedOnce ==
    \A p \in Procs :
        FoundStale(p) =>
            /\ hist[p].branch = "download"
            /\ hist[p].downloads <= 1
            /\ (pc[p] = "returned" =>
                   /\ hist[p].downloads = 1
                   /\ hist[p].renames = 1
                   /\ canonical.by = p
                   /\ canonical.mtime > hist[p].before.mtime)

\* An unforced call returned after it found a file aged exactly the grace
\* period plus one day.
C8_Witness ==
    \E p \in Procs :
        /\ pc[p] = "returned"
        /\ ~args[p].force_download
        /\ FoundStale(p)
        /\ hist[p].at - hist[p].before.mtime
              = (args[p].download_grace_period + 1) * TicksPerDay
        /\ canonical.mtime > hist[p].before.mtime

\* C9: the retry loop has a hard upper bound: a call makes at most
\* max_retries + 1 network attempts (one when max_retries is not
\* positive), so that it ends after finitely many attempts.
C9_AttemptsBounded ==
    \A p \in Procs :
        hist[p].attempts <=
            (IF args[p].n_retries >= 0 THEN args[p].n_retries ELSE 0) + 1

\* C10: a call returns only when the canonical file exists and is complete,
\* and a call that finds the canonical file absent after the move fails
\* with the storage error.
C10_ReturnMeansFilePresent ==
    [][\A p \in Procs :
          /\ (pc[p] # "returned" /\ pc'[p] = "returned") =>
                 /\ Exists(canonical')
                 /\ canonical'.content = "complete"
          /\ (pc[p] = "verify" /\ pc'[p] # "verify" /\ ~Exists(canonical)) =>
                 /\ pc'[p] = "failed"
                 /\ err'[p] = "StorageError"]_vars

\* The canonical file was removed between the move and the test of line
\* 114 and the call failed with the storage error.
C10_Witness ==
    \E p \in Procs :
        /\ pc[p] = "failed"
        /\ err[p] = "StorageError"
        /\ hist[p].renames = 1
        /\ ~Exists(canonical)

\* The source a resolved path came from, told by its last component.
SourceOf(path) ==
    CASE path[Len(path)] = "explicit" -> "argument"
      [] path[Len(path)] = "env" -> "environment"
      [] OTHER -> "default"

\* C11: the directory is chosen by strict precedence: the explicit argument
\* when there is one, else SCH_DATAHOME when it is set, else the platform
\* default (below LOCALAPPDATA when that is set, below the user's home
\* otherwise); every combination yields exactly one directory.
C11_Precedence ==
    resolver.op # "none" =>
        /\ Len(resolver.result) > 0
        /\ (resolver.data_home.set =>
               SourceOf(resolver.result) = "argument")
        /\ (~resolver.data_home.set /\ resolver.SCH_DATAHOME.set =>
               SourceOf(resolver.result) = "environment")
        /\ (~resolver.data_home.set /\ ~resolver.SCH_DATAHOME.set =>
               /\ SourceOf(resolver.result) = "default"
               /\ (~resolver.LOCALAPPDATA.set =>
                      SubSeq(resolver.result, 1, Len(Home)) = Home)
               /\ (resolver.LOCALAPPDATA.set =>
                      SubSeq(resolver.result, 1,
                             Len(resolver.LOCALAPPDATA.path))
                          = resolver.LOCALAPPDATA.path))

\* _get_data_home was given an argument while SCH_DATAHOME was set too, and
\* returned the argument's directory.
C11_Witness ==
    /\ resolver.op = "sch"
    /\ resolver.data_home.set
    /\ resolver.SCH_DATAHOME.set
    /\ SourceOf(resolver.result) = "argument"

\* C18: the directory a _get_data_home returns exists when it returns.
C18_ResolvedDirExists ==
    resolver.op \in {"sch", "config"} =>
        resolver.result \in resolver.dirs

\* C12: with n_retries = N >= 0 a download makes at most N + 1 attempts;
\* the budget stays within 0..N; a retry is a warning, then the decrement
\* by one, then the sleep, then the next attempt (the counts of failures,
\* warnings, decrements and sleeps agree as that order prescribes at every
\* position of the loop); and the network error leaves the loop only with
\* the budget at 0, after N + 1 failures, N warnings and N sleeps.
C12_RetryBudget ==
    \A p \in Procs :
        LET N == args[p].n_retries
            h == hist[p]
            spent == N - n_retries[p]
        IN  (N >= 0 /\ h.downloads = 1) =>
               /\ h.attempts <= N + 1
               /\ n_retries[p] \in 0..N
               /\ (pc[p] = "attempt" =>
                      /\ h.attempts = h.fails
                      /\ h.warns = h.fails /\ spent = h.fails
                      /\ h.sleeps = h.fails)
               /\ (pc[p] = "transferring" =>
                      /\ h.attempts = h.fails + 1
                      /\ h.warns = h.fails /\ spent = h.fails
                      /\ h.sleeps = h.fails)
               /\ (pc[p] \in {"except", "warn"} =>
                      /\ h.attempts = h.fails
                      /\ h.warns = h.fails - 1 /\ spent = h.fails - 1
                      /\ h.sleeps = h.fails - 1)
               /\ (pc[p] = "warn" => n_retries[p] > 0)
               /\ (pc[p] = "decrement" =>
                      /\ h.warns = h.fails /\ spent = h.fails - 1
                      /\ h.sleeps = h.fails - 1)
               /\ (pc[p] = "sleep" =>
                      /\ h.warns = h.fails /\ spent = h.fails
                      /\ h.sleeps = h.fails - 1)
               /\ (pc[p] \in {"cleanup", "failed"} /\ err[p] = "NetworkError" =>
                      /\ n_retries[p] = 0
                      /\ h.fails = N + 1
                      /\ h.attempts = N + 1
                      /\ h.warns = N
                      /\ h.sleeps = N)

\* A download with n_retries = 0 failed at its first transient failure with
\* no warning and no sleep.
C12_Witness ==
    \E p \in Procs :
        /\ pc[p] = "failed"
        /\ err[p] = "NetworkError"
        /\ args[p].n_retries = 0
        /\ hist[p].attempts = 1
        /\ hist[p].warns = 0
        /\ hist[p].sleeps = 0

\* C13: once a call has ended, by its return or by an exception, the
\* staging file it created is gone (deleted or renamed away).
C13_StagingNeverOutlivesCall ==
    \A p \in Procs :
        (pc[p] \in {"returned", "failed"} /\ hist[p].created = 1) =>
            staging[temp_file[p]] = NoFile

\* C14: an error of a fetch attempt that is not a transient network
\* failure is not retried: from the step that raises it on, the call is in
\* the cleanup or has ended, and it makes no further attempt, emits no
\* warning, does not sleep and leaves the retry budget as it was, whatever
\* budget remains.
C14_OnlyTransientRetried ==
    [][\A p \in Procs :
          err'[p] = "OtherError" =>
              /\ pc'[p] \in {"cleanup", "failed", "killed"}
              /\ hist'[p].attempts = hist[p].attempts
              /\ hist'[p].fails = hist[p].fails
              /\ hist'[p].warns = hist[p].warns
              /\ hist'[p].sleeps = hist[p].sleeps
              /\ n_retries'[p] = n_retries[p]]_vars

\* A call failed with the other error at its first attempt while retries
\* were left.
C14_Witness ==
    \E p \in Procs :
        /\ pc[p] = "failed"
        /\ err[p] = "OtherError"
        /\ n_retries[p] = args[p].n_retries
        /\ n_retries[p] > 0
        /\ hist[p].attempts = 1
        /\ hist[p].warns = 0
        /\ hist[p].unlinks = 1

\* C15: for an existing file and force_download = false, the call takes
\* the download branch if and only if the age in days (now minus the
\* modification time, in whole days) is strictly greater than the grace
\* period, and serves the file otherwise; the evaluation itself makes no
\* network attempt and creates nothing.
C15_StrictStaleness ==
    \A p \in Procs :
        (/\ hist[p].branch # "none"
         /\ Exists(hist[p].before)
         /\ ~args[p].force_download) =>
            /\ hist[p].branch \in {"download", "read"}
            /\ (hist[p].branch = "download" <=>
                   hist[p].at - hist[p].before.mtime
                       >= (args[p].download_grace_period + 1) * TicksPerDay)
            /\ (hist[p].branch = "read" <=>
                   hist[p].at - hist[p].before.mtime
                       < (args[p].download_grace_period + 1) * TicksPerDay)
            /\ (pc[p] = "create" =>
                   /\ hist[p].attempts = 0
                   /\ hist[p].created = 0
                   /\ canonical = hist[p].before)

\* An unforced call with a grace period of one day returned a file aged
\* less than one day (the grace period minus one, in whole days) without a
\* fetch.
C15_Witness ==
    \E p \in Procs :
        /\ pc[p] = "returned"
        /\ ~args[p].force_download
        /\ args[p].download_grace_period = 1
        /\ Exists(hist[p].before)
        /\ hist[p].at - hist[p].before.mtime = TicksPerDay - 1
        /\ hist[p].branch = "read"
        /\ hist[p].attempts = 0

\* A call between the creation of its staging file and the unlink or the
\* move of it.
InFlight(p) ==
    pc[p] \in {"attempt", "transferring", "except", "warn", "decrement",
               "sleep", "cleanup", "move"}

\* C16: every fetch writes to its own staging file: a fetch in flight has
\* a staging file under a staging name, written by nobody else, two
\* fetches in flight have different staging files, and a step of the fetch
\* loop writes to the caller's staging file only, never to the canonical
\* file or to another staging file.
C16_OwnStagingFile ==
    /\ [](\A p \in Procs :
             InFlight(p) =>
                 /\ temp_file[p] \in StagingNames
                 /\ staging[temp_file[p]] # NoFile
                 /\ staging[temp_file[p]].by = p
                 /\ \A q \in Procs \ {p} :
                        InFlight(q) => temp_file[q] # temp_file[p])
    /\ [][\A p \in Procs :
             (pc[p] \in {"attempt", "transferring"} /\ pc'[p] # pc[p]) =>
                 /\ canonical' = canonical
                 /\ \A s \in StagingNames \ {temp_file[p]} :
                        staging'[s] = staging[s]]_vars

\* Two callers are in the middle of their transfers, each into its own
\* staging file.
C16_Witness ==
    \E p \in Procs, q \in Procs :
        /\ p # q
        /\ pc[p] = "transferring"
        /\ pc[q] = "transferring"
        /\ temp_file[p] # temp_file[q]
        /\ staging[temp_file[p]].content = "partial"
        /\ staging[temp_file[q]].content = "partial"

C19_CleanupOwnFileOnly ==
    /\ [][\A p \in Procs :
             (pc[p] = "cleanup" /\ pc'[p] = "failed") =>
                 /\ staging'[temp_file[p]] = NoFile
                 /\ canonical' = canonical
                 /\ \A s \in StagingNames \ {temp_file[p]} :
                        staging'[s] = staging[s]]_vars
    /\ [](\A q \in Procs :
             pc[q] = "move" =>
                 /\ staging[temp_file[q]].content = "complete"
                 /\ staging[temp_file[q]].by = q)

\* One caller failed and removed its staging file while the other, its
\* payload complete, is about to publish; the canonical file is the one the
\* failed caller found.
C19_Witness ==
    \E p \in Procs, q \in Procs :
        /\ p # q
        /\ pc[p] = "failed"
        /\ hist[p].unlinks = 1
        /\ staging[temp_file[p]] = NoFile
        /\ canonical = hist[p].before
        /\ pc[q] = "move"
        /\ staging[temp_file[q]].content = "complete"

\* C20: a successful refresh makes the cache fresh again: the file a call
\* publishes carries the time of its download as modification time, and a
\* following unforced call that finds a published file less than one grace
\* period after that time makes no network attempt and leaves the file
\* unchanged.
C20_RefreshMakesFresh ==
    /\ [][\A p \in Procs :
             hist'[p].renames = hist[p].renames + 1 =>
                 /\ canonical'.by = p
                 /\ canonical'.mtime = now']_vars
    /\ [](\A p \in Procs :
             (/\ hist[p].branch # "none"
              /\ hist[p].before.by \in Procs
              /\ ~args[p].force_download
              /\ args[p].download_grace_period >= 0
              /\ hist[p].at - hist[p].before.mtime
                    < args[p].download_grace_period * TicksPerDay) =>
                 /\ hist[p].branch = "read"
                 /\ hist[p].downloads = 0
                 /\ hist[p].attempts = 0
                 /\ canonical = hist[p].before)

\* A call returned the file that an earlier call had published half a day
\* before, with a grace period of one day.
C20_Witness ==
    \E p \in Procs :
        /\ pc[p] = "returned"
        /\ hist[p].before.by \in Procs
        /\ ~args[p].force_download
        /\ args[p].download_grace_period = 1
        /\ hist[p].at - hist[p].before.mtime = 1
        /\ hist[p].at - hist[p].before.mtime < TicksPerDay
        /\ hist[p].attempts = 0
        /\ canonical = hist[p].before

TypeOK ==
    /\ now \in 0..MaxNow
    /\ dirExists \in BOOLEAN
    /\ pc \in [Procs -> {"idle", "check", "create", "attempt", "transferring",
                         "except", "warn", "decrement", "sleep", "cleanup",
                         "move",
                         "verify", "read", "returned", "failed", "killed"}]
    /\ args \in [Procs -> ArgSet]
    /\ temp_file \in [Procs -> StagingNames \cup {0}]
====
